---- MODULE Spec2Model ----
(***************************************************************************)
(* A model of the configuration-resolution and authenticated-dispatch core *)
(* of node-sdk-core: BaseService (lib/base-service.ts), the helpers of     *)
(* lib/helper.ts and the file readers of the auth utilities.               *)
(***************************************************************************)
EXTENDS Naturals, Sequences, FiniteSets, TLC

(***************************************************************************)
(* Bounds of the model.                                                    *)
(***************************************************************************)
\* longest URL string given to the constructor, a setter or the external config
MaxUrlLen == 2
\* number of configureService calls on one instance
MaxConfigure == 2
\* number of createRequest calls on one instance
MaxDispatch == 2
\* number of segments (a placeholder or a piece of text) of a URL template
MaxSegments == 2
\* number of entries of a variable map or of a parameter object
MaxVars == 2

(***************************************************************************)
(* JavaScript values.  Every value is a tuple of strings whose head is the *)
(* type tag, so that any two values can be compared: a string is its tag   *)
(* followed by its characters.                                             *)
(***************************************************************************)
Undefined == <<"undefined">>
Null == <<"null">>
True == <<"boolean", "true">>
False == <<"boolean", "false">>
One == <<"number", "1">>
Zero == <<"number", "0">>
Str(s) == <<"string">> \o s
Obj(id) == <<"object", id>>
Chars(v) == Tail(v)

\* typeof v
TypeOf(v) == IF v[1] = "null" THEN "object" ELSE v[1]

\* ToBoolean(v): what `if (v)` and `!v` test
Truthy(v) ==
  CASE v[1] = "undefined" -> FALSE
    [] v[1] = "null" -> FALSE
    [] v[1] = "boolean" -> v = True
    [] v[1] = "number" -> v # Zero
    [] v[1] = "string" -> Len(v) > 1
    [] OTHER -> TRUE

(***************************************************************************)
(* Option bags: a function from the keys that are present to their values.*)
(* A key may be present with the value undefined.                          *)
(***************************************************************************)
EmptyObject == [k \in {} |-> Undefined]
\* o[k]
Get(o, k) == IF k \in DOMAIN o THEN o[k] ELSE Undefined
\* o[k] = v
Put(o, k, v) == [x \in DOMAIN o \cup {k} |-> IF x = k THEN v ELSE o[x]]
\* { ...a, ...b } and Object.assign(a, b)
Spread(a, b) == [x \in DOMAIN a \cup DOMAIN b |-> IF x \in DOMAIN b THEN b[x] ELSE a[x]]

(***************************************************************************)
(* Strings over a small alphabet: a letter, the slash and a curly bracket. *)
(***************************************************************************)
Alphabet == {"h", "/", "{"}
Strings(n) == UNION {[1..k -> Alphabet] : k \in 0..n}
UrlStrings == Strings(MaxUrlLen)

\* helper.ts stripTrailingSlash: url.replace(/\/$/, '')
stripTrailingSlashNone(url) == url
stripTrailingSlash(url) ==
  IF Len(url) > 0 /\ url[Len(url)] = "/" THEN SubSeq(url, 1, Len(url) - 1) ELSE url

EndsInSlash(v) == TypeOf(v) = "string" /\ Len(v) > 1 /\ v[Len(v)] = "/"

(***************************************************************************)
(* The service instance (lib/base-service.ts).                             *)
(***************************************************************************)
VARIABLES
  serviceClass,            \* the static members of the service class
  instance,                \* "none", "ready", or "failed" when the constructor threw
  constructError,          \* the message of the error the constructor threw, or ""
  baseOptions,             \* this.baseOptions
  authenticator,           \* this.authenticator
  requestWrapperInstance,  \* this.requestWrapperInstance
  dispatch,                \* slot -> the state of that createRequest call
  fsAvailable,             \* whether the fs module is there (it is stubbed in browsers)
  env,                     \* process.env.IBM_CREDENTIALS_FILE: a path, or <<>> when unset or ''
  fs,                      \* path -> what is at that path
  readResult,              \* the outcome of the last read
  log,                     \* what that read logged
  helperCall,              \* the arguments of a call of a helper.ts function
  helperPc,                \* "idle", "called" or "returned"
  helperResult             \* what that call returned or threw

serviceVars ==
  <<serviceClass, instance, constructError, baseOptions, authenticator,
    requestWrapperInstance>>
fileVars == <<fsAvailable, env, fs, readResult, log>>
helperVars == <<helperCall, helperPc, helperResult>>
vars == <<serviceVars, dispatch, fileVars, helperVars>>

\* auth/utils: a credential must not start or end with a curly bracket or a quote
BadCharAtAnEnd(s) == Len(s) > 0 /\ (s[1] = "{" \/ s[Len(s)] = "{")

\* checkCredentials(options, ['serviceUrl']): TRUE when it returns an Error
checkCredentials(options) ==
  LET v == Get(options, "serviceUrl")
  IN Truthy(v) /\ TypeOf(v) = "string" /\ BadCharAtAnEnd(Chars(v))

\* new RequestWrapper(options): the transport, its identity and its two switches
NewRequestWrapper(options, gen) ==
  [gen |-> gen,
   compressRequestData |-> Truthy(Get(options, "enableGzipCompression")),
   retries |-> Truthy(Get(options, "enableRetries"))]

NoWrapper == [gen |-> 0, compressRequestData |-> FALSE, retries |-> FALSE]

\* base-service.ts 97-100: for compatibility, url stands in for serviceUrl
CompatOptions(options) ==
  IF Truthy(Get(options, "url")) /\ ~Truthy(Get(options, "serviceUrl"))
    THEN Put(options, "serviceUrl", Get(options, "url"))
    ELSE options

\* base-service.ts 102-104
BaseServiceOptionsOf(options) ==
  IF Truthy(Get(options, "serviceUrl"))
    THEN Put(EmptyObject, "serviceUrl", Str(stripTrailingSlash(Chars(Get(options, "serviceUrl")))))
    ELSE EmptyObject

\* base-service.ts 113-117: anything but the boolean true becomes false
CoerceSslAny(options) ==
  IF ~Truthy(Get(options, "disableSslVerification"))
    THEN Put(options, "disableSslVerification", False)
    ELSE options
CoerceSsl(options) ==
  IF Get(options, "disableSslVerification") # True
    THEN Put(options, "disableSslVerification", False)
    ELSE options

\* base-service.ts 120-125: defaults, then the options, then the normalized fields
MergeOptions(class, options, baseServiceOptions) ==
  Spread(Spread([k \in {"qs", "serviceUrl"} |->
                   IF k = "qs" THEN Obj("{}") ELSE class.DEFAULT_SERVICE_URL],
                options),
         baseServiceOptions)

Threw(msg) ==
  [threw |-> TRUE, error |-> msg, baseOptions |-> EmptyObject,
   authenticator |-> Undefined, requestWrapperInstance |-> NoWrapper]

\* the constructor, base-service.ts 87-135: what `new` yields for these options
BaseServiceConstructorNoCheck(class, opts) ==
  LET options == CompatOptions(opts)
      coerced == CoerceSsl(options)
      merged == MergeOptions(class, coerced, BaseServiceOptionsOf(options))
  IN [threw |-> FALSE, error |-> "", baseOptions |-> merged,
      authenticator |-> Get(coerced, "authenticator"),
      requestWrapperInstance |-> NewRequestWrapper(merged, 1)]
BaseServiceConstructor(class, opts) ==
  LET options == CompatOptions(opts)
      su == Get(options, "serviceUrl")
  IN IF Truthy(su) /\ TypeOf(su) # "string"
       THEN Threw("TypeError: url.replace is not a function")
     ELSE IF checkCredentials(options)
       THEN Threw("The serviceUrl shouldn't start or end with curly brackets or quotes.")
     ELSE LET coerced == CoerceSsl(options)
              merged == MergeOptions(class, coerced, BaseServiceOptionsOf(options))
          IN IF ~Truthy(Get(coerced, "authenticator"))
               THEN Threw("Authenticator must be set.")
               ELSE [threw |-> FALSE, error |-> "", baseOptions |-> merged,
                     authenticator |-> Get(coerced, "authenticator"),
                     requestWrapperInstance |-> NewRequestWrapper(merged, 1)]

(***************************************************************************)
(* The inputs of the service's operations.                                 *)
(***************************************************************************)
\* the bags that are o, or o with key k set to one of vs
With(o, k, vs) == {o} \cup {Put(o, k, v) : v \in vs}
WithAll(os, k, vs) == UNION {With(o, k, vs) : o \in os}

PlainStrings == {s \in UrlStrings : \A i \in 1..Len(s) : s[i] # "{"}
UrlValues == {Str(s) : s \in UrlStrings}
LegacyUrlValues == {Str(<<>>), Str(<<"h", "/">>)}

Authenticators == {Obj("A1"), Obj("A2")}
WithAuthenticator ==
  [k \in {"authenticator", "version"} |->
     IF k = "authenticator" THEN Obj("A1") ELSE Str(<<"h">>)]

\* the shapes of user options given to the constructor
UserOptionsSet ==
  WithAll(With(WithAuthenticator, "serviceUrl", {Undefined} \cup UrlValues),
          "url", LegacyUrlValues)
  \cup With(WithAuthenticator, "disableSslVerification",
            {True, False, Undefined, Str(<<"h">>), One})
  \cup With(WithAuthenticator, "qs", {Undefined, Obj("Q1")})
  \cup With(EmptyObject, "authenticator", {Undefined, Null, Obj("A2")})

\* a generated service class sets its DEFAULT_SERVICE_URL
ServiceClasses == {[DEFAULT_SERVICE_URL |-> Str(<<"d">>)]}

\* what readExternalSources(serviceName) may return: null, or the properties found
ExternalUrls ==
  {Str(<<>>), Str(<<"h">>), Str(<<"h", "/">>), Str(<<"/", "/">>)}
ExternalProperties ==
  With(EmptyObject, "url", ExternalUrls)
  \cup WithAll(With(EmptyObject, "disableSsl", {True, False}), "enableGzip", {True, False})
  \cup WithAll(With(EmptyObject, "enableRetries", {True, False}), "maxRetries", {One})
  \cup {[k \in {"url", "disableSsl", "enableGzip", "enableRetries", "maxRetries",
                "retryInterval", "apikey"} |->
           CASE k = "url" -> Str(<<"h", "/">>)
             [] k \in {"disableSsl", "enableGzip", "enableRetries"} -> True
             [] k = "apikey" -> Str(<<"h">>)
             [] OTHER -> One]}
ExternalSources ==
  {[isNull |-> TRUE, properties |-> EmptyObject]}
  \cup {[isNull |-> FALSE, properties |-> p] : p \in ExternalProperties}

ServiceNames == {Str(<<>>), Str(<<"h">>)}
SetterUrls == {Str(s) : s \in PlainStrings} \cup {Undefined, Null}
HeaderArguments == {Undefined, Null, Str(<<"h">>), One, True, Obj("H1")}

(***************************************************************************)
(* The operations of the service.                                          *)
(***************************************************************************)
ServiceInit ==
  /\ serviceClass \in ServiceClasses
  /\ instance = "none"
  /\ constructError = ""
  /\ baseOptions = EmptyObject
  /\ authenticator = Undefined
  /\ requestWrapperInstance = NoWrapper

\* new Service(opts)
Construct(opts) ==
  /\ instance = "none"
  /\ LET r == BaseServiceConstructor(serviceClass, opts)
     IN /\ instance' = IF r.threw THEN "failed" ELSE "ready"
        /\ constructError' = r.error
        /\ baseOptions' = r.baseOptions
        /\ authenticator' = r.authenticator
        /\ requestWrapperInstance' = r.requestWrapperInstance
  /\ UNCHANGED <<serviceClass, dispatch, fileVars, helperVars>>

\* getAuthenticator(), base-service.ts 142-144
getAuthenticator == authenticator

\* setServiceUrl(url), base-service.ts 151-155; a truthy non-string throws in replace()
SetServiceUrlResultNoStrip(options, url) ==
  IF Truthy(url) /\ TypeOf(url) = "string"
    THEN Put(options, "serviceUrl", url)
    ELSE options
SetServiceUrlResult(options, url) ==
  IF Truthy(url) /\ TypeOf(url) = "string"
    THEN Put(options, "serviceUrl", Str(stripTrailingSlash(Chars(url))))
    ELSE options

SetServiceUrl(url) ==
  /\ instance = "ready"
  /\ baseOptions' = SetServiceUrlResult(baseOptions, url)
  /\ UNCHANGED <<serviceClass, instance, constructError, authenticator,
                 requestWrapperInstance, dispatch, fileVars, helperVars>>

\* setDefaultHeaders(headers), base-service.ts 162-169
SetDefaultHeadersResult(options, headers) ==
  IF TypeOf(headers) # "object" THEN options ELSE Put(options, "headers", headers)

SetDefaultHeaders(headers) ==
  /\ instance = "ready"
  /\ baseOptions' = SetDefaultHeadersResult(baseOptions, headers)
  /\ UNCHANGED <<serviceClass, instance, constructError, authenticator,
                 requestWrapperInstance, dispatch, fileVars, helperVars>>

\* setEnableGzipCompression(setting), base-service.ts 176-181
SetEnableGzipCompression(setting) ==
  /\ instance = "ready"
  /\ requestWrapperInstance' =
       [requestWrapperInstance EXCEPT !.compressRequestData = Truthy(setting)]
  /\ baseOptions' = Put(baseOptions, "enableGzipCompression", setting)
  /\ UNCHANGED <<serviceClass, instance, constructError, authenticator, dispatch,
                 fileVars, helperVars>>

\* enableRetries(retryOptions), base-service.ts 196-198
EnableRetries ==
  /\ instance = "ready"
  /\ requestWrapperInstance' = [requestWrapperInstance EXCEPT !.retries = TRUE]
  /\ UNCHANGED <<serviceClass, instance, constructError, baseOptions, authenticator,
                 dispatch, fileVars, helperVars>>

\* disableRetries(), base-service.ts 203-205
DisableRetries ==
  /\ instance = "ready"
  /\ requestWrapperInstance' = [requestWrapperInstance EXCEPT !.retries = FALSE]
  /\ UNCHANGED <<serviceClass, instance, constructError, baseOptions, authenticator,
                 dispatch, fileVars, helperVars>>

\* readOptionsFromExternalConfig, base-service.ts 260-293, on what
\* readExternalSources returned
OverlayIf(results, cond, key, value) == IF cond THEN Put(results, key, value) ELSE results

readOptionsFromExternalConfigAllPresent(source) ==
  IF source.isNull THEN EmptyObject
  ELSE LET p == source.properties
           r1 == OverlayIf(EmptyObject, Truthy(Get(p, "url")) /\ TypeOf(Get(p, "url")) = "string",
                           "serviceUrl", Str(stripTrailingSlash(Chars(Get(p, "url")))))
           r2 == OverlayIf(r1, Get(p, "disableSsl") # Undefined,
                           "disableSslVerification", Get(p, "disableSsl"))
           r3 == OverlayIf(r2, Get(p, "enableGzip") # Undefined,
                           "enableGzipCompression", Get(p, "enableGzip"))
           r4 == OverlayIf(r3, Get(p, "enableRetries") # Undefined,
                           "enableRetries", Get(p, "enableRetries"))
           r5 == OverlayIf(r4, Get(p, "maxRetries") # Undefined,
                           "maxRetries", Get(p, "maxRetries"))
       IN OverlayIf(r5, Get(p, "retryInterval") # Undefined,
                    "retryInterval", Get(p, "retryInterval"))
readOptionsFromExternalConfig(source) ==
  IF source.isNull THEN EmptyObject
  ELSE LET p == source.properties
           r1 == OverlayIf(EmptyObject, Truthy(Get(p, "url")) /\ TypeOf(Get(p, "url")) = "string",
                           "serviceUrl", Str(stripTrailingSlash(Chars(Get(p, "url")))))
           r2 == OverlayIf(r1, Get(p, "disableSsl") = True,
                           "disableSslVerification", Get(p, "disableSsl"))
           r3 == OverlayIf(r2, Get(p, "enableGzip") = True,
                           "enableGzipCompression", Get(p, "enableGzip"))
           r4 == OverlayIf(r3, Get(p, "enableRetries") # Undefined,
                           "enableRetries", Get(p, "enableRetries"))
           r5 == OverlayIf(r4, Get(p, "maxRetries") # Undefined,
                           "maxRetries", Get(p, "maxRetries"))
       IN OverlayIf(r5, Get(p, "retryInterval") # Undefined,
                    "retryInterval", Get(p, "retryInterval"))

\* configureService(serviceName), base-service.ts 213-223; without a service name
\* it throws and changes nothing
ConfigureService(serviceName, source) ==
  /\ instance = "ready"
  /\ requestWrapperInstance.gen <= MaxConfigure
  /\ IF ~Truthy(serviceName)
       THEN UNCHANGED <<baseOptions, requestWrapperInstance>>
       ELSE LET merged == Spread(baseOptions, readOptionsFromExternalConfig(source))
            IN /\ baseOptions' = merged
               /\ requestWrapperInstance' =
                    NewRequestWrapper(merged, requestWrapperInstance.gen + 1)
  /\ UNCHANGED <<serviceClass, instance, constructError, authenticator, dispatch,
                 fileVars, helperVars>>

(***************************************************************************)
(* Dispatch: createRequest, base-service.ts 246-257.  Each call is one     *)
(* slot; the authenticator and the transport are collaborators whose       *)
(* promises settle in later steps.                                         *)
(***************************************************************************)
Slots == 1..MaxDispatch

IdleDispatch ==
  [pc |-> "idle", defaultOptions |-> EmptyObject,
   authCalls |-> 0, authOutcome |-> "none",
   authBy |-> Undefined, sendCalls |-> 0, sentWith |-> NoWrapper, error |-> ""]

DispatchInit == dispatch = [d \in Slots |-> IdleDispatch]

\* the request descriptions given to createRequest: without defaultOptions, or
\* with defaultOptions whose serviceUrl is absent, undefined, empty, not a string, a URL
RequestDescriptions ==
  {[hasDefaultOptions |-> FALSE, defaultOptions |-> EmptyObject]}
  \cup {[hasDefaultOptions |-> TRUE, defaultOptions |-> o] :
          o \in With(EmptyObject, "serviceUrl",
                     {Undefined, Str(<<>>), One, True, Str(<<"h">>)})}

AuthErrors == {"E_AUTH_1", "E_AUTH_2"}

\* base-service.ts 248-249: the precondition on the service URL
ServiceUrlOf(parameters) ==
  IF parameters.hasDefaultOptions THEN Get(parameters.defaultOptions, "serviceUrl")
  ELSE Undefined
HasServiceUrlTruthy(parameters) == Truthy(ServiceUrlOf(parameters))
HasServiceUrl(parameters) ==
  Truthy(ServiceUrlOf(parameters)) /\ TypeOf(ServiceUrlOf(parameters)) = "string"

\* base-service.ts 253: this.authenticator.authenticate(parameters.defaultOptions)
AuthenticatorOfCall == authenticator

\* the slot after createRequest(parameters) returned its promise
CreateRequestSendsAtOnce(slot, parameters) ==
  IF ~HasServiceUrl(parameters)
    THEN [slot EXCEPT !.pc = "rejected", !.error = "The service URL is required"]
    ELSE [slot EXCEPT !.pc = "sending", !.authCalls = @ + 1, !.authOutcome = "pending",
                      !.authBy = AuthenticatorOfCall,
                      !.sendCalls = @ + 1, !.sentWith = requestWrapperInstance,
                      !.defaultOptions = parameters.defaultOptions]
CreateRequestResult(slot, parameters) ==
  IF ~HasServiceUrl(parameters)
    THEN [slot EXCEPT !.pc = "rejected", !.error = "The service URL is required"]
    ELSE [slot EXCEPT !.pc = "authenticating", !.authCalls = @ + 1,
                      !.authOutcome = "pending", !.authBy = AuthenticatorOfCall,
                      !.defaultOptions = parameters.defaultOptions]

\* createRequest(parameters): slots are taken in order
CreateRequest(d, parameters) ==
  /\ instance = "ready"
  /\ dispatch[d].pc = "idle"
  /\ \A e \in Slots : e < d => dispatch[e].pc # "idle"
  /\ dispatch' = [dispatch EXCEPT ![d] = CreateRequestResult(@, parameters)]
  /\ UNCHANGED <<serviceVars, fileVars, helperVars>>

\* base-service.ts 253-256: authenticate() resolved, having put the credential in
\* the headers, and the continuation calls sendRequest on the current transport
ThenSendRequest(slot) ==
  [slot EXCEPT !.pc = "sending", !.authOutcome = "resolved",
               !.defaultOptions = Put(@, "headers", Obj("Authorization")),
               !.sendCalls = @ + 1, !.sentWith = requestWrapperInstance]

AuthenticateResolves(d) ==
  /\ dispatch[d].pc = "authenticating"
  /\ dispatch' = [dispatch EXCEPT ![d] = ThenSendRequest(@)]
  /\ UNCHANGED <<serviceVars, fileVars, helperVars>>

\* authenticate() rejected: the promise of createRequest rejects with that error
AuthenticateRejected(slot, err) ==
  [slot EXCEPT !.pc = "failed", !.authOutcome = "rejected", !.error = err]

AuthenticateRejects(d, err) ==
  /\ dispatch[d].pc = "authenticating"
  /\ dispatch' = [dispatch EXCEPT ![d] = AuthenticateRejected(@, err)]
  /\ UNCHANGED <<serviceVars, fileVars, helperVars>>

\* the promise of sendRequest settles, and with it the promise of createRequest
SendRequestSettles(d, ok) ==
  /\ dispatch[d].pc = "sending"
  /\ dispatch' = [dispatch EXCEPT ![d] =
                    IF ok THEN [@ EXCEPT !.pc = "resolved"]
                    ELSE [@ EXCEPT !.pc = "failed", !.error = "E_SEND"]]
  /\ UNCHANGED <<serviceVars, fileVars, helperVars>>

(***************************************************************************)
(* The file readers (auth/utils/file-reading-helpers): readCredentialsFile *)
(* and readCrTokenFile over a small file system.                           *)
(***************************************************************************)
\* part_000 line 26
defaultCredsFilename == "ibm-credentials.env"

\* a path is the sequence of its segments
GivenDir == <<"cfg">>
GivenDefault == <<"cfg", defaultCredsFilename>>
Nowhere == <<"nowhere">>
Cwd == <<"cwd">>
Home == <<"home">>
join(dir, name) == Append(dir, name)

Paths == {GivenDir, GivenDefault, join(Cwd, defaultCredsFilename),
          join(Home, defaultCredsFilename)}
Kinds == {"none", "file", "emptyfile", "dir", "symlink", "symlinkdir"}
KindAt(path) == IF path \in DOMAIN fs THEN fs[path] ELSE "none"

\* a file system: an entry below cfg needs cfg to be a directory
FileSystems ==
  {f \in [Paths -> Kinds] :
     f[GivenDefault] # "none" => f[GivenDir] \in {"dir", "symlinkdir"}}

\* fs.existsSync follows links; lstatSync does not
existsSync(path) == KindAt(path) # "none"
isFile(path) == KindAt(path) \in {"file", "emptyfile"}
isSymbolicLink(path) == KindAt(path) \in {"symlink", "symlinkdir"}

\* part_000 72-79
fileExistsAtPathFilesOnly(filepath) == existsSync(filepath) /\ isFile(filepath)
fileExistsAtPath(filepath) ==
  existsSync(filepath) /\ (isFile(filepath) \/ isSymbolicLink(filepath))

\* part_000 81-88: the path string ends with the default file name when its last
\* segment does
constructFilepath(filepath) ==
  IF Len(filepath) > 0 /\ filepath[Len(filepath)] = defaultCredsFilename
    THEN filepath
    ELSE join(filepath, defaultCredsFilename)

\* fs.readFileSync(path): the text, or the error it throws; NoPath is undefined
NoPath == <<"undefined">>
readFileSync(path) ==
  CASE path = NoPath ->
         [threw |-> TRUE, error |-> "TypeError [ERR_INVALID_ARG_TYPE]", text |-> <<>>]
    [] path # NoPath /\ KindAt(path) = "none" ->
         [threw |-> TRUE, error |-> "ENOENT", text |-> <<>>]
    [] path # NoPath /\ KindAt(path) \in {"dir", "symlinkdir"} ->
         [threw |-> TRUE, error |-> "EISDIR", text |-> <<>>]
    [] path # NoPath /\ KindAt(path) = "emptyfile" ->
         [threw |-> FALSE, error |-> "", text |-> <<>>]
    [] OTHER ->
         [threw |-> FALSE, error |-> "", text |-> <<"contents of">> \o path]

NoResult ==
  [op |-> "none", outcome |-> "none", file |-> NoPath, text |-> <<>>, error |-> ""]

FilesInit ==
  /\ fsAvailable \in BOOLEAN
  /\ fs \in FileSystems
  /\ env \in {<<>>, GivenDir, GivenDefault, Nowhere}
  /\ readResult = NoResult
  /\ log = <<>>

\* part_000 43-65: the path readCredentialsFile settles on.  With the variable set
\* and neither of its two candidates there, filepathToUse stays undefined
NoCredentialsFile == <<"no credentials file">>
filepathToUse ==
  LET givenFilepath == env
      workingDir == constructFilepath(Cwd)
      homeDir == constructFilepath(Home)
  IN IF givenFilepath # <<>>
       THEN IF fileExistsAtPath(givenFilepath) THEN givenFilepath
            ELSE IF fileExistsAtPath(constructFilepath(givenFilepath))
              THEN constructFilepath(givenFilepath)
            ELSE NoPath
     ELSE IF fileExistsAtPath(workingDir) THEN workingDir
     ELSE IF fileExistsAtPath(homeDir) THEN homeDir
     ELSE NoCredentialsFile

\* part_000 32-70: readCredentialsFile(), its outcome and what it logs
readCredentialsFile ==
  IF ~fsAvailable
    THEN [result |-> [op |-> "readCredentialsFile", outcome |-> "returned",
                      file |-> NoPath, text |-> <<>>, error |-> ""],
          log |-> <<>>]
  ELSE IF filepathToUse = NoCredentialsFile
    THEN [result |-> [op |-> "readCredentialsFile", outcome |-> "returned",
                      file |-> NoPath, text |-> <<>>, error |-> ""],
          log |-> <<[level |-> "info",
                     message |-> "Credential file does not exist. Will not be used"]>>]
  ELSE LET credsFile == readFileSync(filepathToUse)
       IN [result |-> [op |-> "readCredentialsFile",
                       outcome |-> IF credsFile.threw THEN "threw" ELSE "returned",
                       file |-> filepathToUse, text |-> credsFile.text,
                       error |-> credsFile.error],
           log |-> <<>>]

ReadCredentialsFile ==
  /\ readResult.op = "none"
  /\ readResult' = readCredentialsFile.result
  /\ log' = readCredentialsFile.log
  /\ UNCHANGED <<fsAvailable, env, fs, serviceVars, dispatch, helperVars>>

\* part_000 90-112: readCrTokenFile(filepath), its outcome and what it logs
TokenError == "Unable to retrieve the CR token value from file"
readCrTokenFile(filepath) ==
  IF ~fsAvailable
    THEN [result |-> [op |-> "readCrTokenFile", outcome |-> "returned",
                      file |-> filepath, text |-> <<>>, error |-> ""],
          log |-> <<>>]
  ELSE LET fileExists == fileExistsAtPath(filepath)
           read == IF fileExists THEN readFileSync(filepath)
                   ELSE [threw |-> FALSE, error |-> "", text |-> <<>>]
           debug == [level |-> "debug", message |-> "Successfully read CR token from file"]
       IN IF read.threw
            THEN [result |-> [op |-> "readCrTokenFile", outcome |-> "threw",
                              file |-> filepath, text |-> <<>>, error |-> read.error],
                  log |-> <<>>]
          ELSE IF read.text = <<>>
            THEN [result |-> [op |-> "readCrTokenFile", outcome |-> "threw",
                              file |-> filepath, text |-> <<>>, error |-> TokenError],
                  log |-> (IF fileExists THEN <<debug>> ELSE <<>>)
                          \o <<[level |-> "error",
                                message |-> IF fileExists
                                  THEN "Expected to read CR token from file but the file is empty"
                                  ELSE "Expected to find CR token file but the file does not exist"]>>]
          ELSE [result |-> [op |-> "readCrTokenFile", outcome |-> "returned",
                            file |-> filepath, text |-> read.text, error |-> ""],
                log |-> <<debug>>]

ReadCrTokenFile(filepath) ==
  /\ readResult.op = "none"
  /\ readResult' = readCrTokenFile(filepath).result
  /\ log' = readCrTokenFile(filepath).log
  /\ UNCHANGED <<fsAvailable, env, fs, serviceVars, dispatch, helperVars>>

(***************************************************************************)
(* helper.ts constructServiceUrl.  A Map is the tag "map" followed by its  *)
(* entries <<name, value>> in insertion order; a template is a string of   *)
(* characters.  No value holds a '$', which String.replace would expand.   *)
(***************************************************************************)
MapOf(entries) == <<"map">> \o entries
Entries(map) == Tail(map)
\* map.keys(), in insertion order
Keys(map) == [i \in 1..Len(Entries(map)) |-> Entries(map)[i][1]]
\* map.has(name)
Has(map, name) == \E i \in 1..Len(Entries(map)) : Entries(map)[i][1] = name
\* map.get(name)
MapGet(map, name) ==
  IF Has(map, name)
    THEN Entries(map)[CHOOSE i \in 1..Len(Entries(map)) : Entries(map)[i][1] = name][2]
    ELSE Undefined

\* the variable names, in the order of their UTF-16 code units
NameOrder == <<"a", "b", "c">>
\* Array.prototype.sort() on distinct names
sortNone(names) == names
sort(names) ==
  SelectSeq(NameOrder, LAMBDA n : \E i \in 1..Len(names) : names[i] = n)

\* s.indexOf(pattern) + 1, or 0 when pattern does not occur in s
IndexOf(s, pattern) ==
  LET hits == {i \in 1..(Len(s) + 1 - Len(pattern)) :
                 SubSeq(s, i, i + Len(pattern) - 1) = pattern}
  IN IF hits = {} THEN 0 ELSE CHOOSE i \in hits : \A j \in hits : i <= j

\* s.replace(pattern, value) with a string pattern: the first occurrence only
replace(s, pattern, value) ==
  LET i == IndexOf(s, pattern)
  IN IF i = 0 THEN s
     ELSE SubSeq(s, 1, i - 1) \o value \o SubSeq(s, i + Len(pattern), Len(s))

\* `{${name}}`
Placeholder(name) == <<"{", name, "}">>

\* defaultUrlVariables.forEach(...) from entry i on, formattedUrl being url
RECURSIVE formatUrl(_, _, _, _)
formatUrl(url, defaultUrlVariables, providedUrlVariables, i) ==
  IF i > Len(Entries(defaultUrlVariables)) THEN url
  ELSE LET name == Entries(defaultUrlVariables)[i][1]
           defaultValue == Entries(defaultUrlVariables)[i][2]
           providedValue == MapGet(providedUrlVariables, name)
           formatValue == IF providedValue # Undefined THEN providedValue ELSE defaultValue
       IN formatUrl(replace(url, Placeholder(name), Chars(formatValue)),
                    defaultUrlVariables, providedUrlVariables, i + 1)

NoUrlError == [name |-> "", valid |-> <<>>]

\* the names of provided that defaults does not have, in iteration order
InvalidNames(defaultUrlVariables, providedUrlVariables) ==
  SelectSeq(Keys(providedUrlVariables), LAMBDA n : ~Has(defaultUrlVariables, n))

constructServiceUrl(parameterizedUrl, defaultUrlVariables, providedUrlVariables) ==
  LET provided == IF providedUrlVariables = Null THEN MapOf(<<>>) ELSE providedUrlVariables
      invalid == InvalidNames(defaultUrlVariables, provided)
  IN IF invalid # <<>>
       THEN [threw |-> TRUE, value |-> <<>>,
             error |-> [name |-> invalid[1], valid |-> sort(Keys(defaultUrlVariables))]]
       ELSE [threw |-> FALSE,
             value |-> formatUrl(parameterizedUrl, defaultUrlVariables, provided, 1),
             error |-> NoUrlError]

\* the inputs: templates made of placeholders and plain text, and small maps
Segments == {Placeholder("a"), Placeholder("b"), <<"x">>}
RECURSIVE Concat(_)
Concat(segs) == IF segs = <<>> THEN <<>> ELSE Head(segs) \o Concat(Tail(segs))
Templates == {Concat(segs) : segs \in UNION {[1..k -> Segments] : k \in 0..MaxSegments}}

\* the sequences of at most MaxVars entries with distinct names
EntrySeqs(names, values) ==
  {s \in UNION {[1..k -> names \X values] : k \in 0..MaxVars} :
     \A i, j \in 1..Len(s) : i # j => s[i][1] # s[j][1]}
MapsOf(names, values) == {MapOf(e) : e \in EntrySeqs(names, values)}
DefaultMaps == MapsOf({"a", "b"}, {Str(<<"v">>), Str(Placeholder("b"))})
ProvidedMaps == MapsOf({"a", "b", "c"}, {Str(<<"w">>), Undefined}) \cup {Null}

UrlCalls ==
  [parameterizedUrl : Templates, defaultUrlVariables : DefaultMaps,
   providedUrlVariables : ProvidedMaps]

UrlCalled == helperCall \in UrlCalls /\ helperPc = "called" /\ helperResult = <<>>

ConstructServiceUrl ==
  /\ helperPc = "called"
  /\ helperPc' = "returned"
  /\ helperResult' = constructServiceUrl(helperCall.parameterizedUrl,
                                         helperCall.defaultUrlVariables,
                                         helperCall.providedUrlVariables)
  /\ UNCHANGED <<helperCall, serviceVars, dispatch, fileVars>>

(***************************************************************************)
(* helper.ts validateParams.  An object is the tag "object" followed by    *)
(* its entries <<key, value>> in the order of Object.keys; an array of     *)
(* names is the tag "array" followed by the names.  Keys, Has and MapGet   *)
(* read an object's entries as they read a Map's.                          *)
(***************************************************************************)
ObjectOf(entries) == <<"object">> \o entries
ArrayOf(items) == <<"array">> \o items
Items(array) == Tail(array)
\* array.includes(item)
includes(array, item) == \E i \in 1..Len(Items(array)) : Items(array)[i] = item

\* isMissing(value)
isMissingFalsy(value) == ~Truthy(value)
isMissing(value) == value = Undefined \/ value = Null \/ value = Str(<<>>)

NoError == [isNull |-> TRUE, message |-> <<>>]
\* new Error(errorMsg): the message, line by line; a line is its heading
\* followed by the names that join(', ') lists
ErrorOf(lines) == [isNull |-> FALSE, message |-> lines]

validateParams(params, requiredParams, allParams) ==
  LET missing ==
        IF Truthy(requiredParams)
          THEN IF ~Truthy(params) THEN Items(requiredParams)
               ELSE SelectSeq(Items(requiredParams),
                              LAMBDA require : isMissing(MapGet(params, require)))
          ELSE <<>>
      invalid ==
        IF Truthy(allParams) /\ Truthy(params)
          THEN SelectSeq(Keys(params), LAMBDA key : ~includes(allParams, key))
          ELSE <<>>
  IN IF Len(missing) = 0 /\ Len(invalid) = 0 THEN NoError
     ELSE ErrorOf(<<<<"Parameter validation errors:">>>>
                  \o (IF Len(missing) > 0
                        THEN <<<<"Missing required parameters:">> \o missing>>
                        ELSE <<>>)
                  \o (IF Len(invalid) > 0
                        THEN <<<<"Found invalid parameters:">> \o invalid>>
                        ELSE <<>>))

\* the inputs: parameter values of every kind isMissing tells apart
ParamValues ==
  {Undefined, Null, Str(<<>>), Str(<<"h">>), Zero, False, Obj("empty")}
ParamObjects == {ObjectOf(e) : e \in EntrySeqs({"a", "b"}, ParamValues)} \cup {Null}
NameLists == {ArrayOf(<<>>), ArrayOf(<<"a">>), ArrayOf(<<"b">>), ArrayOf(<<"a", "b">>),
              ArrayOf(<<"b", "a">>), Null}

ParamsCalls == [params : ParamObjects, requiredParams : NameLists, allParams : NameLists]

ParamsCalled == helperCall \in ParamsCalls /\ helperPc = "called" /\ helperResult = <<>>

ValidateParams ==
  /\ helperPc = "called"
  /\ helperPc' = "returned"
  /\ helperResult' = validateParams(helperCall.params, helperCall.requiredParams,
                                    helperCall.allParams)
  /\ UNCHANGED <<helperCall, serviceVars, dispatch, fileVars>>

(***************************************************************************)
(* helper.ts buildRequestFileObject.  A Buffer is the tag "buffer"         *)
(* followed by its bytes, a readable stream the tag "stream" followed by   *)
(* its path (nothing when it has no path property).  A path or a file name *)
(* is a string of components and "/" separators.                           *)
(***************************************************************************)
\* Buffer.from(string)
BufferFrom(v) == <<"buffer">> \o Chars(v)
\* Buffer.isBuffer(obj)
isBuffer(obj) == obj[1] = "buffer"
\* isstream's isReadable(obj)
isReadable(obj) == obj[1] = "stream"
\* obj.path of a stream
PathOf(obj) == IF isReadable(obj) /\ Len(obj) > 1 THEN Str(Tail(obj)) ELSE Undefined

\* the data of a file parameter: a FileObject {value, options?}, or file data itself
Descriptor(value, hasOptions, options) ==
  [kind |-> "descriptor", value |-> value, hasOptions |-> hasOptions, options |-> options]
Plain(value) ==
  [kind |-> "plain", value |-> value, hasOptions |-> FALSE, options |-> EmptyObject]
\* data.value
ValueOf(data) == IF data.kind = "descriptor" THEN data.value ELSE Undefined
\* data as a value: file data is itself, a descriptor an object
AsValue(data) == IF data.kind = "descriptor" THEN Obj("descriptor") ELSE data.value

isFileObject(data) == Truthy(AsValue(data)) /\ Truthy(ValueOf(data))
isFileStream(obj) == Truthy(obj) /\ isReadable(obj) /\ Truthy(PathOf(obj))
isFileData(obj) == Truthy(obj) /\ (isReadable(obj) \/ isBuffer(obj))

\* a || b
Or(a, b) == IF Truthy(a) THEN a ELSE b

\* mime-types lookup(path): the type of the extension, or false
lookup(path) ==
  IF Len(path) > 0 /\ path[Len(path)] = "a.png" THEN Str(<<"image/png">>) ELSE False
\* FileType.fromBuffer(buffer): the mime type of the magic number, or undefined
fromBuffer(buffer) ==
  IF Len(buffer) > 3 /\ SubSeq(buffer, 2, 4) = <<"P", "N", "G">>
    THEN Str(<<"image/png">>) ELSE Undefined

getContentType(inputData) ==
  IF isFileStream(inputData) THEN Or(lookup(Chars(PathOf(inputData))), Null)
  ELSE IF isBuffer(inputData) THEN Or(fromBuffer(inputData), Null)
  ELSE Null

\* path.basename(p), for a p that does not end in a slash
basename(p) ==
  LET cut == {i \in 1..Len(p) : p[i] = "/"}
  IN IF cut = {} THEN p
     ELSE SubSeq(p, (CHOOSE i \in cut : \A j \in cut : j <= i) + 1, Len(p))

\* lines 245-262: the file object before it is normalized
FileObjectOf(fileParam) ==
  IF isFileObject(fileParam.data)
    THEN [value |-> fileParam.data.value,
          options |->
            IF fileParam.data.hasOptions
              THEN [k \in {"filename", "contentType"} |->
                      Or(fileParam[k], Get(fileParam.data.options, k))]
              ELSE EmptyObject]
    ELSE [value |-> AsValue(fileParam.data),
          options |-> [k \in {"filename", "contentType"} |-> fileParam[k]]]

buildRequestFileObject(fileParam) ==
  LET fileObj == FileObjectOf(fileParam)
      value == IF TypeOf(fileObj.value) = "string"
                 THEN BufferFrom(fileObj.value) ELSE fileObj.value
      given == Get(fileObj.options, "filename")
      filename == IF ~Truthy(given) /\ isFileStream(value) THEN PathOf(value) ELSE given
      named == Put(fileObj.options, "filename",
                   IF Truthy(filename) THEN Str(basename(Chars(filename)))
                   ELSE Str(<<"_">>))
  IN [value |-> value,
      options |->
        IF ~Truthy(Get(named, "contentType")) /\ isFileData(value)
          THEN Put(named, "contentType",
                   Or(getContentType(value), Str(<<"application/octet-stream">>)))
          ELSE named]

\* the inputs: every shape of data, with and without explicit and nested options
FileValues ==
  {<<"buffer">>, <<"buffer", "h">>, <<"buffer", "P", "N", "G">>,
   Str(<<>>), Str(<<"h">>),
   <<"stream">>, <<"stream", "a">>, <<"stream", "d", "/", "a.png">>}
NestedOptions ==
  WithAll(With(EmptyObject, "filename", {Str(<<"n">>)}), "contentType", {Str(<<"m">>)})
FileData ==
  {Plain(v) : v \in FileValues}
  \cup {Descriptor(v, FALSE, EmptyObject) : v \in FileValues}
  \cup {Descriptor(v, TRUE, o) : v \in FileValues, o \in NestedOptions}
FileParams ==
  [data : FileData,
   filename : {Undefined, Str(<<>>), Str(<<"f">>), Str(<<"d", "/", "f">>)},
   contentType : {Undefined, Str(<<>>), Str(<<"t">>)}]

FileObjectCalled == helperCall \in FileParams /\ helperPc = "called" /\ helperResult = <<>>

BuildRequestFileObject ==
  /\ helperPc = "called"
  /\ helperPc' = "returned"
  /\ helperResult' = buildRequestFileObject(helperCall)
  /\ UNCHANGED <<helperCall, serviceVars, dispatch, fileVars>>

(***************************************************************************)
(* Specifications.                                                         *)
(***************************************************************************)
\* the file system as the service specifications hold it: untouched
FilesIdle ==
  /\ fsAvailable = TRUE
  /\ fs = [p \in Paths |-> "none"]
  /\ env = <<>>
  /\ readResult = NoResult
  /\ log = <<>>

\* Spec: construction, the setters and configureService
\* no helper call in the service and file specifications
HelpersIdle ==
  /\ helperCall = <<>>
  /\ helperPc = "idle"
  /\ helperResult = <<>>

Init == ServiceInit /\ DispatchInit /\ FilesIdle /\ HelpersIdle

Next ==
  \/ \E opts \in UserOptionsSet : Construct(opts)
  \/ \E url \in SetterUrls : SetServiceUrl(url)
  \/ \E headers \in HeaderArguments : SetDefaultHeaders(headers)
  \/ \E setting \in {True, False} : SetEnableGzipCompression(setting)
  \/ \E name \in ServiceNames, source \in ExternalSources : ConfigureService(name, source)

Spec == Init /\ [][Next]_vars

\* SpecFiles: one read of the credentials file or of a CR token file
InitFiles ==
  /\ ServiceInit
  /\ DispatchInit
  /\ FilesInit
  /\ HelpersIdle

NextFiles ==
  \/ ReadCredentialsFile
  \/ \E filepath \in Paths \cup {Nowhere} : ReadCrTokenFile(filepath)

SpecFiles == InitFiles /\ [][NextFiles]_vars

\* SpecDispatch: createRequest calls interleaved with the public operations
DispatchUserOptions ==
  {Put(o, "serviceUrl", Str(<<"h", "/">>)) :
     o \in With(EmptyObject, "authenticator", {Undefined} \cup Authenticators)}
  \cup {Put(WithAuthenticator, "serviceUrl", Str(<<"{">>))}
DispatchSources ==
  {[isNull |-> FALSE,
    properties |-> [k \in {"url", "enableGzip", "enableRetries"} |->
                      IF k = "url" THEN Str(<<"/", "h">>) ELSE True]]}

NextDispatch ==
  \/ \E opts \in DispatchUserOptions : Construct(opts)
  \/ \E url \in {Str(<<"h", "h">>)} : SetServiceUrl(url)
  \/ \E headers \in {Obj("H1")} : SetDefaultHeaders(headers)
  \/ \E setting \in {True} : SetEnableGzipCompression(setting)
  \/ EnableRetries
  \/ DisableRetries
  \/ \E source \in DispatchSources : ConfigureService(Str(<<"h">>), source)
  \/ \E d \in Slots, parameters \in RequestDescriptions : CreateRequest(d, parameters)
  \/ \E d \in Slots : AuthenticateResolves(d)
  \/ \E d \in Slots, err \in AuthErrors : AuthenticateRejects(d, err)
  \/ \E d \in Slots, ok \in BOOLEAN : SendRequestSettles(d, ok)

SpecDispatch == Init /\ [][NextDispatch]_vars

\* SpecUrl, SpecParams, SpecFileObject: one call of a helper.ts function
ServiceIdle == ServiceInit /\ DispatchInit /\ FilesIdle

NextUrl == ConstructServiceUrl
InitUrl == ServiceIdle /\ UrlCalled
SpecUrl == InitUrl /\ [][NextUrl]_vars

NextParams == ValidateParams
InitParams == ServiceIdle /\ ParamsCalled
SpecParams == InitParams /\ [][NextParams]_vars

NextFileObject == BuildRequestFileObject
InitFileObject == ServiceIdle /\ FileObjectCalled
SpecFileObject == InitFileObject /\ [][NextFileObject]_vars

(***************************************************************************)
(* Properties of dispatch, checked under SpecDispatch.                     *)
(***************************************************************************)
Started(d) == dispatch[d].pc \in {"authenticating", "sending", "resolved", "failed"}

\* what every state shows of the order of the two calls
AuthenticateBeforeSend ==
  \A d \in Slots :
    /\ dispatch[d].authCalls <= 1
    /\ dispatch[d].sendCalls <= 1
    /\ Started(d) => dispatch[d].authCalls = 1
    /\ dispatch[d].sendCalls = 1 =>
         dispatch[d].authCalls = 1 /\ dispatch[d].authOutcome = "resolved"
    /\ dispatch[d].authOutcome = "rejected" =>
         /\ dispatch[d].pc = "failed"
         /\ dispatch[d].error \in AuthErrors
         /\ dispatch[d].sendCalls = 0

\* sendRequest is called in a later step than authenticate, the step in which
\* authenticate resolves
SendFollowsResolution ==
  \A d \in Slots :
    dispatch'[d].sendCalls > dispatch[d].sendCalls =>
      /\ dispatch[d].authCalls = 1
      /\ dispatch[d].authOutcome = "pending"
      /\ dispatch'[d].authOutcome = "resolved"
      /\ dispatch'[d].authCalls = 1

\* a rejection of authenticate is the failure of the dispatch
RejectionPropagates ==
  \A d \in Slots, err \in AuthErrors :
    AuthenticateRejects(d, err) =>
      /\ dispatch'[d].pc = "failed"
      /\ dispatch'[d].error = err
      /\ dispatch'[d].sendCalls = 0
      /\ dispatch'[d].authCalls = 1

\* C1: for every createRequest call that passes the service-URL precondition,
\* authenticate is invoked exactly once and strictly before sendRequest;
\* sendRequest is invoked only once authenticate has resolved, and when
\* authenticate rejects the dispatch fails with that same error, sendRequest is
\* never invoked and authenticate is not invoked again.
C1_AuthenticateThenSend ==
  /\ []AuthenticateBeforeSend
  /\ [][SendFollowsResolution /\ RejectionPropagates]_vars

\* one dispatch has been sent after its authentication, another failed in it
C1_Witness ==
  \E d, e \in Slots :
    /\ dispatch[d].sendCalls = 1 /\ dispatch[d].authOutcome = "resolved"
    /\ dispatch[e].authOutcome = "rejected" /\ dispatch[e].error = "E_AUTH_2"

\* the request descriptions the claim names: no defaultOptions, or a serviceUrl
\* that is absent, empty, or not a string
LacksServiceUrl(parameters) ==
  \/ ~parameters.hasDefaultOptions
  \/ "serviceUrl" \notin DOMAIN parameters.defaultOptions
  \/ parameters.defaultOptions["serviceUrl"] = Undefined
  \/ parameters.defaultOptions["serviceUrl"] = Str(<<>>)
  \/ parameters.defaultOptions["serviceUrl"][1] # "string"

RejectsWithoutServiceUrl ==
  \A d \in Slots, parameters \in RequestDescriptions :
    (CreateRequest(d, parameters) /\ LacksServiceUrl(parameters)) =>
      /\ dispatch'[d].pc = "rejected"
      /\ dispatch'[d].error = "The service URL is required"
      /\ dispatch'[d].authCalls = 0
      /\ dispatch'[d].sendCalls = 0
      /\ baseOptions' = baseOptions
      /\ requestWrapperInstance' = requestWrapperInstance

RejectedStaysUntouched ==
  \A d \in Slots :
    dispatch[d].pc = "rejected" =>
      /\ dispatch[d].authCalls = 0
      /\ dispatch[d].sendCalls = 0
      /\ dispatch[d].authOutcome = "none"

\* C2: createRequest on a request description without defaultOptions, or whose
\* defaultOptions.serviceUrl is absent, empty or not a string, returns a rejected
\* promise; neither authenticate nor sendRequest is ever invoked for that call,
\* and the options of the service are left unchanged.
C2_MissingServiceUrlRejects ==
  /\ []RejectedStaysUntouched
  /\ [][RejectsWithoutServiceUrl /\ (\A d \in Slots :
          dispatch[d].pc = "rejected" => dispatch'[d] = dispatch[d])]_vars

\* a call was rejected while another one of the same instance went through
C2_Witness ==
  \E d, e \in Slots :
    /\ dispatch[d].pc = "rejected"
    /\ dispatch[e].pc = "sending"

\* what the constructor does with and without an authenticator
ConstructNeedsAuthenticator ==
  \A opts \in DispatchUserOptions :
    (instance = "none" /\ Construct(opts)) =>
      /\ ~Truthy(Get(opts, "authenticator")) =>
           /\ instance' = "failed"
           /\ constructError' # ""
      /\ (Truthy(Get(opts, "authenticator")) /\ ~checkCredentials(CompatOptions(opts))) =>
           /\ instance' = "ready"
           /\ getAuthenticator' = opts["authenticator"]

AuthenticatorPresent ==
  /\ instance = "ready" => getAuthenticator \in Authenticators
  /\ instance # "ready" => \A d \in Slots : dispatch[d].pc = "idle"
  /\ \A d \in Slots :
       dispatch[d].authCalls > 0 =>
         dispatch[d].authBy = getAuthenticator /\ dispatch[d].authBy \in Authenticators

C3_ServiceUrlNeverEndsInSlash ==
  instance = "ready" => ~EndsInSlash(Get(baseOptions, "serviceUrl"))

\* the external property behind each field configureService may set
ExternalKeyOf(field) ==
  CASE field = "serviceUrl" -> "url"
    [] field = "disableSslVerification" -> "disableSsl"
    [] field = "enableGzipCompression" -> "enableGzip"
    [] OTHER -> field
ConfigurableFields ==
  {"serviceUrl", "disableSslVerification", "enableGzipCompression", "enableRetries",
   "maxRetries", "retryInterval"}
ExternalValueFor(properties, field) ==
  IF field = "serviceUrl"
    THEN LET u == Chars(properties["url"])
         IN Str(IF Len(u) > 0 /\ u[Len(u)] = "/" THEN SubSeq(u, 1, Len(u) - 1) ELSE u)
    ELSE properties[ExternalKeyOf(field)]

\* the fields the claim has overwritten: those whose external property is present
PresentFields(properties) ==
  {f \in ConfigurableFields : ExternalKeyOf(f) \in DOMAIN properties}

\* the fields the code overwrites: url when not empty, disableSsl and enableGzip
\* when true, the three retry properties when defined
AppliedFields(properties) ==
  {f \in ConfigurableFields :
     /\ ExternalKeyOf(f) \in DOMAIN properties
     /\ CASE f = "serviceUrl" -> properties["url"] \notin {Undefined, Null, Str(<<>>)}
          [] f \in {"disableSslVerification", "enableGzipCompression"} ->
               properties[ExternalKeyOf(f)] = True
          [] OTHER -> properties[ExternalKeyOf(f)] # Undefined}

\* configureService sets exactly the given fields to their external values
OverlaysExactly(fields(_)) ==
  \A source \in ExternalSources :
    (/\ requestWrapperInstance' # requestWrapperInstance
     /\ ~source.isNull
     /\ \E name \in ServiceNames : Truthy(name) /\ ConfigureService(name, source)) =>
      /\ DOMAIN baseOptions' = DOMAIN baseOptions \cup fields(source.properties)
      /\ \A f \in fields(source.properties) :
           baseOptions'[f] = ExternalValueFor(source.properties, f)
      /\ \A k \in DOMAIN baseOptions \ fields(source.properties) :
           baseOptions'[k] = baseOptions[k]

\* C5 as claimed: configureService overwrites exactly the fields whose external
\* property is present, an external disableSsl or enableGzip of false included,
\* and leaves every other field unchanged.
C5_OverwritesEveryPresentField == [][OverlaysExactly(PresentFields)]_vars

\* C5 as amended: configureService(name) with a non-empty name overwrites
\* serviceUrl with the stripped external url when that url is not empty,
\* disableSslVerification and enableGzipCompression only when the external value
\* is the boolean true, and enableRetries, maxRetries and retryInterval whenever
\* they are defined, each whatever was set before; every other field of
\* baseOptions, and every field not so applied, is left unchanged.
C5_OverwritesAppliedFields == [][OverlaysExactly(AppliedFields)]_vars

\* configureService has overwritten the retry settings and the URL of an instance
\* whose SSL verification the constructor had disabled
C5_Witness ==
  /\ instance = "ready"
  /\ requestWrapperInstance.gen > 1
  /\ Get(baseOptions, "disableSslVerification") = True
  /\ Get(baseOptions, "enableRetries") = False
  /\ Get(baseOptions, "maxRetries") = One
  /\ Get(baseOptions, "serviceUrl") = Str(<<"h", "h">>)
  /\ Get(baseOptions, "authenticator") = Obj("A1")

SslIsBoolean ==
  instance = "ready" => Get(baseOptions, "disableSslVerification") \in {True, False}

ConstructorCoercesSsl ==
  \A opts \in UserOptionsSet :
    (instance = "none" /\ instance' = "ready" /\ Construct(opts)) =>
      (Get(baseOptions', "disableSslVerification") = True
         <=> ("disableSslVerification" \in DOMAIN opts
                /\ opts["disableSslVerification"] = True))

\* C9 as claimed: disableSslVerification is a boolean, and it is true only when
\* the constructor was given the boolean true: no later call makes it true.
C9_SslTrueOnlyFromConstructor ==
  /\ []SslIsBoolean
  /\ [][ConstructorCoercesSsl
        /\ ((instance = "ready" /\ Get(baseOptions, "disableSslVerification") # True)
              => Get(baseOptions', "disableSslVerification") # True)]_vars

\* C9 as amended: disableSslVerification is a boolean; after construction it is
\* true only when the constructor was given the boolean true, and afterwards
\* it becomes true only by a configureService call that read an external
\* disableSsl of true.
C9_SslTrueFromConstructorOrExternal ==
  /\ []SslIsBoolean
  /\ [][ConstructorCoercesSsl
        /\ ((instance = "ready" /\ Get(baseOptions, "disableSslVerification") # True
               /\ Get(baseOptions', "disableSslVerification") = True)
              => \E name \in ServiceNames, source \in ExternalSources :
                   /\ ConfigureService(name, source)
                   /\ Truthy(name)
                   /\ Get(source.properties, "disableSsl") = True)]_vars

\* an instance constructed with SSL verification on had it disabled by configureService
C9_Witness ==
  /\ instance = "ready"
  /\ Get(baseOptions, "disableSslVerification") = True
  /\ Get(baseOptions, "enableGzipCompression") = False
  /\ requestWrapperInstance.gen = 2
  /\ Get(baseOptions, "qs") = Obj("Q1")

\* the URL the claim gives the instance: the serviceUrl option, else the legacy
\* url option, else the default of the class
ClaimedServiceUrl(class, opts) ==
  IF Get(opts, "serviceUrl") \notin {Undefined, Str(<<>>)}
    THEN Str(stripTrailingSlash(Chars(Get(opts, "serviceUrl"))))
  ELSE IF Get(opts, "url") \notin {Undefined, Str(<<>>)}
    THEN Str(stripTrailingSlash(Chars(Get(opts, "url"))))
  ELSE class.DEFAULT_SERVICE_URL

\* C10: after successful construction baseOptions.serviceUrl is the stripped
\* serviceUrl option if given, else the stripped legacy url if given, else
\* DEFAULT_SERVICE_URL, also for options that carry a serviceUrl key with an
\* undefined or empty value; qs is the empty map unless the caller gave qs.
C10_ServiceUrlPrecedence ==
  [][\A opts \in UserOptionsSet :
       (instance = "none" /\ instance' = "ready" /\ Construct(opts)) =>
         /\ Get(baseOptions', "serviceUrl") = ClaimedServiceUrl(serviceClass, opts)
         /\ Get(baseOptions', "qs") = IF "qs" \in DOMAIN opts THEN opts["qs"] ELSE Obj("{}")]_vars

(***************************************************************************)
(* Properties of the file readers, checked under SpecFiles.                *)
(***************************************************************************)
\* the four candidate locations of the claim, in its order; the first two only
\* when IBM_CREDENTIALS_FILE is set
Candidates ==
  (IF env # <<>> THEN <<env, join(env, defaultCredsFilename)>> ELSE <<>>)
  \o <<join(Cwd, defaultCredsFilename), join(Home, defaultCredsFilename)>>
IsFileOrSymlink(path) == KindAt(path) \in {"file", "emptyfile", "symlink", "symlinkdir"}
FirstCandidate ==
  IF \E i \in 1..Len(Candidates) : IsFileOrSymlink(Candidates[i])
    THEN Candidates[CHOOSE i \in 1..Len(Candidates) :
                      /\ IsFileOrSymlink(Candidates[i])
                      /\ \A j \in 1..(i - 1) : ~IsFileOrSymlink(Candidates[j])]
    ELSE NoPath

\* C6: readCredentialsFile parses the first existing candidate of: the
\* IBM_CREDENTIALS_FILE path itself, ibm-credentials.env inside that path,
\* ibm-credentials.env in the working directory, ibm-credentials.env in the home
\* directory; the last two are tried also when the variable is set and its two
\* candidates do not exist.
C6_FirstExistingCandidateIsRead ==
  (fsAvailable /\ readResult.op = "readCredentialsFile" /\ FirstCandidate # NoPath) =>
    readResult.file = FirstCandidate

\* C7: readCredentialsFile never faults: whatever IBM_CREDENTIALS_FILE is and
\* whichever files exist it returns a record, and with no file at any of the four
\* locations it returns the empty record and logs exactly one informational entry.
C7_DiscoveryNeverFaults ==
  (fsAvailable /\ readResult.op = "readCredentialsFile") =>
    /\ readResult.outcome = "returned"
    /\ FirstCandidate = NoPath =>
         /\ readResult.text = <<>>
         /\ Len(log) = 1
         /\ log[1].level = "info"

IsMissing(path) == KindAt(path) = "none"
IsEmpty(path) == KindAt(path) = "emptyfile"
HasText(path) == KindAt(path) \in {"file", "symlink"}

\* what holds of readCrTokenFile whatever the thrown message says
TokenReadOutcome ==
  /\ readResult.outcome = "returned" <=> HasText(readResult.file)
  /\ readResult.outcome = "returned" =>
       readResult.text = <<"contents of">> \o readResult.file
  /\ (IsMissing(readResult.file) \/ IsEmpty(readResult.file)) =>
       /\ readResult.outcome = "threw"
       /\ readResult.error \notin {"ENOENT", "EISDIR", ""}

\* C8 as claimed: readCrTokenFile returns the text iff the path is an existing
\* file or symlink with contents; a missing and an empty file both make it throw
\* an error of the same kind, and the message of the error thrown for a missing
\* file differs from the one thrown for an empty file (the path named in the
\* message, kept in readResult.file, set aside).
C8_MessageTellsMissingFromEmpty ==
  (fsAvailable /\ readResult.op = "readCrTokenFile") =>
    /\ TokenReadOutcome
    /\ IsMissing(readResult.file) =>
         \A other \in Paths :
           IsEmpty(other) => readCrTokenFile(other).result.error # readResult.error

\* C8 as amended: with the fs module there, readCrTokenFile returns the text iff
\* the path is an existing file or symlink with contents, and never the empty
\* string; a missing and an empty file both make it throw an Error with the same
\* message, and only the error entry it logs before throwing tells the missing
\* file from the empty one.
C8_LogTellsMissingFromEmpty ==
  (fsAvailable /\ readResult.op = "readCrTokenFile") =>
    /\ TokenReadOutcome
    /\ (IsMissing(readResult.file) \/ IsEmpty(readResult.file)) =>
         /\ readResult.error = "Unable to retrieve the CR token value from file"
         /\ Len(log) >= 1
         /\ log[Len(log)].level = "error"
         /\ log[Len(log)].message =
              IF IsMissing(readResult.file)
                THEN "Expected to find CR token file but the file does not exist"
                ELSE "Expected to read CR token from file but the file is empty"

\* a token was asked of a missing file while an empty file lay elsewhere
C8_Witness ==
  /\ fsAvailable
  /\ readResult.op = "readCrTokenFile"
  /\ readResult.outcome = "threw"
  /\ IsMissing(readResult.file)
  /\ \E other \in Paths : IsEmpty(other)
  /\ \E other \in Paths : KindAt(other) = "symlink"

(***************************************************************************)
(* Properties of constructServiceUrl, checked under SpecUrl.               *)
(***************************************************************************)
\* the names a map holds; of null, none
NamesIn(map) == IF map = Null THEN {} ELSE {Keys(map)[i] : i \in 1..Len(Keys(map))}
\* name m sorts before name n
SortsBefore(m, n) ==
  \E i, j \in 1..Len(NameOrder) : i < j /\ NameOrder[i] = m /\ NameOrder[j] = n
\* names lists every element of set once, in sorted order
ListsSorted(names, set) ==
  /\ {names[i] : i \in 1..Len(names)} = set
  /\ \A i, j \in 1..Len(names) : i < j => SortsBefore(names[i], names[j])

\* C11: constructServiceUrl throws iff the provided map has a name that is not a
\* key of the default map, and the error then lists all keys of the default map in
\* sorted order; a null provided map never throws and gives what an empty map gives.
C11_InvalidVariableFails ==
  helperPc = "returned" =>
    /\ helperResult.threw <=>
         NamesIn(helperCall.providedUrlVariables)
           \ NamesIn(helperCall.defaultUrlVariables) # {}
    /\ helperResult.threw =>
         /\ helperResult.error.name \in NamesIn(helperCall.providedUrlVariables)
                                          \ NamesIn(helperCall.defaultUrlVariables)
         /\ ListsSorted(helperResult.error.valid, NamesIn(helperCall.defaultUrlVariables))
    /\ helperCall.providedUrlVariables = Null =>
         /\ ~helperResult.threw
         /\ helperResult = constructServiceUrl(helperCall.parameterizedUrl,
                                               helperCall.defaultUrlVariables, MapOf(<<>>))

\* an invalid name was refused against a default map whose keys were inserted unsorted
C11_Witness ==
  /\ helperPc = "returned"
  /\ helperResult.threw
  /\ Keys(helperCall.defaultUrlVariables) = <<"b", "a">>
  /\ helperResult.error.valid = <<"a", "b">>

\* the value that stands for name: the provided one if defined, else the default
ChosenValue(defaults, provided, name) ==
  IF provided # Null /\ MapGet(provided, name) # Undefined
    THEN MapGet(provided, name) ELSE MapGet(defaults, name)

\* template with every placeholder of a default name replaced, and nothing else
RECURSIVE ExpandAll(_, _, _)
ExpandAll(template, defaults, provided) ==
  IF template = <<>> THEN <<>>
  ELSE IF /\ Len(template) >= 3
          /\ template[1] = "{" /\ template[3] = "}"
          /\ Has(defaults, template[2])
         THEN Chars(ChosenValue(defaults, provided, template[2]))
              \o ExpandAll(SubSeq(template, 4, Len(template)), defaults, provided)
         ELSE <<template[1]>> \o ExpandAll(Tail(template), defaults, provided)

\* C12: for a valid provided map, constructServiceUrl returns the template with every
\* occurrence of every placeholder {name} of a default name replaced by the provided
\* value if defined, else by the default value, and nothing else changed.
C12_EveryPlaceholderReplaced ==
  (helperPc = "returned" /\ ~helperResult.threw) =>
    helperResult.value = ExpandAll(helperCall.parameterizedUrl,
                                   helperCall.defaultUrlVariables,
                                   helperCall.providedUrlVariables)

(***************************************************************************)
(* Properties of validateParams, checked under SpecParams.                 *)
(***************************************************************************)
\* the elements of an array of names; of null, none
NamesOf(array) == IF array = Null THEN {} ELSE {Items(array)[i] : i \in 1..Len(Items(array))}
\* name has no usable value in params: absent or undefined, null, or the empty string
LacksValue(params, name) ==
  \/ params = Null
  \/ ~Has(params, name)
  \/ MapGet(params, name) \in {Undefined, Null, Str(<<>>)}
MissingNames(params, required) == {n \in NamesOf(required) : LacksValue(params, n)}
InvalidKeys(params, allowed) ==
  IF allowed = Null THEN {} ELSE NamesIn(params) \ NamesOf(allowed)
\* the lines of message that begin with heading, and the names they list
LinesUnder(message, heading) == {k \in 1..Len(message) : message[k][1] = heading}
NamesUnder(message, heading) ==
  UNION {{message[k][i] : i \in 2..Len(message[k])} : k \in LinesUnder(message, heading)}

\* C13: validateParams returns null iff no required name lacks a value in params and
\* no key of params is outside the allowed names (0, false and an empty collection are
\* values; a null required or allowed list skips its check); otherwise it returns one
\* Error whose message lists exactly the missing names under one heading and exactly
\* the invalid keys under another.
C13_ValidateParamsVerdict ==
  helperPc = "returned" =>
    LET missing == MissingNames(helperCall.params, helperCall.requiredParams)
        invalid == InvalidKeys(helperCall.params, helperCall.allParams)
    IN /\ helperResult.isNull <=> (missing = {} /\ invalid = {})
       /\ ~helperResult.isNull =>
            /\ NamesUnder(helperResult.message, "Missing required parameters:") = missing
            /\ NamesUnder(helperResult.message, "Found invalid parameters:") = invalid
            /\ Cardinality(LinesUnder(helperResult.message, "Missing required parameters:"))
                 = IF missing = {} THEN 0 ELSE 1
            /\ Cardinality(LinesUnder(helperResult.message, "Found invalid parameters:"))
                 = IF invalid = {} THEN 0 ELSE 1

\* a required 0 counted as given, next to a missing name and an invalid key
C13_Witness ==
  /\ helperPc = "returned"
  /\ helperCall.requiredParams = ArrayOf(<<"a", "b">>)
  /\ helperCall.allParams = ArrayOf(<<"a">>)
  /\ helperCall.params = ObjectOf(<<<<"b", Str(<<>>)>>, <<"a", Zero>>>>)
  /\ helperResult.message = <<<<"Parameter validation errors:">>,
                              <<"Missing required parameters:", "b">>,
                              <<"Found invalid parameters:", "b">>>>

(***************************************************************************)
(* Properties of buildRequestFileObject, checked under SpecFileObject.     *)
(***************************************************************************)
\* the value the result carries: a string as a byte buffer, anything else as it is
Carried(value) == IF TypeOf(value) = "string" THEN BufferFrom(value) ELSE value
\* the explicit option k of the file parameter if given, else the nested one
Preferred(fileParam, k) ==
  IF Truthy(fileParam[k]) THEN fileParam[k] ELSE Get(fileParam.data.options, k)

\* C14: for a fileParam whose data is a file descriptor {value, options?}, the result
\* carries data.value, and its filename and contentType are the explicit
\* fileParam.filename / fileParam.contentType when given, the nested data.options
\* value only when the explicit one is not given, with or without a nested options
\* object.
C14_ExplicitOverNested ==
  (helperPc = "returned" /\ helperCall.data.kind = "descriptor") =>
    /\ helperResult.value = Carried(helperCall.data.value)
    /\ Truthy(Preferred(helperCall, "filename")) =>
         Get(helperResult.options, "filename")
           = Str(basename(Chars(Preferred(helperCall, "filename"))))
    /\ Truthy(Preferred(helperCall, "contentType")) =>
         Get(helperResult.options, "contentType") = Preferred(helperCall, "contentType")

\* C15: for every accepted shape of data the result is {value, options: {filename,
\* contentType}} where filename is the explicit filename if given, else the base name
\* of the path of a stream that has one, else '_', and contentType is the explicit
\* content type if given, else the sniffed type, else 'application/octet-stream'; both
\* are defined and non-empty, and a string value is carried as a byte buffer.
C15_CanonicalDescriptor ==
  helperPc = "returned" =>
    LET value == Carried(helperCall.data.value)
        filename == Get(helperResult.options, "filename")
        contentType == Get(helperResult.options, "contentType")
    IN /\ helperResult.value = value
       /\ DOMAIN helperResult.options = {"filename", "contentType"}
       /\ TypeOf(filename) = "string" /\ Truthy(filename)
       /\ TypeOf(contentType) = "string" /\ Truthy(contentType)
       /\ filename =
            IF Truthy(Preferred(helperCall, "filename"))
              THEN Preferred(helperCall, "filename")
            ELSE IF isFileStream(value) THEN Str(basename(Chars(PathOf(value))))
            ELSE Str(<<"_">>)
       /\ contentType =
            IF Truthy(Preferred(helperCall, "contentType"))
              THEN Preferred(helperCall, "contentType")
            ELSE Or(getContentType(value), Str(<<"application/octet-stream">>))

(***************************************************************************)
(* Properties of interleaved calls, checked under SpecDispatch and Spec.   *)
(***************************************************************************)
\* createRequest call d has called authenticate and not yet sendRequest
InFlight(d) == dispatch[d].pc = "authenticating"
\* a step of a setter, enableRetries, disableRetries or configureService
ServiceMutation == instance = "ready" /\ serviceVars' # serviceVars

\* C16: a setter, enableRetries, disableRetries or configureService call that runs
\* between a dispatch's authenticate and its sendRequest leaves unchanged the
\* transport instance and settings (gzip, retries) that dispatch will be sent with,
\* and its request description; and a step of one dispatch leaves the others as
\* they are.
C16_InFlightDispatchUnaffected ==
  [][/\ \A d \in Slots :
          (InFlight(d) /\ ServiceMutation) =>
            /\ requestWrapperInstance' = requestWrapperInstance
            /\ dispatch'[d] = dispatch[d]
     /\ Cardinality({d \in Slots : dispatch'[d] # dispatch[d]}) <= 1]_vars

\* a usable header mapping
IsMapping(v) == v[1] = "object"
\* all of baseOptions but field k is left as it was
OnlyFieldMayChange(k) ==
  /\ DOMAIN baseOptions \subseteq DOMAIN baseOptions'
  /\ DOMAIN baseOptions' \subseteq DOMAIN baseOptions \cup {k}
  /\ \A x \in DOMAIN baseOptions \ {k} : baseOptions'[x] = baseOptions[x]

\* C17: setServiceUrl with a falsy url leaves baseOptions.serviceUrl unchanged, and
\* setDefaultHeaders with an argument that is not a header mapping (undefined, null,
\* a string, a number, a boolean) leaves baseOptions.headers unchanged, so
\* baseOptions.headers stays unset or a mapping; neither setter changes any other
\* field of baseOptions.
C17_SettersRejectUnusableInput ==
  [][/\ \A url \in SetterUrls :
          SetServiceUrl(url) =>
            /\ OnlyFieldMayChange("serviceUrl")
            /\ ~Truthy(url) => baseOptions' = baseOptions
     /\ \A headers \in HeaderArguments :
          SetDefaultHeaders(headers) =>
            /\ OnlyFieldMayChange("headers")
            /\ ~IsMapping(headers) => baseOptions' = baseOptions
            /\ "headers" \in DOMAIN baseOptions' => IsMapping(baseOptions'["headers"])]_vars

====
